---- MODULE Spec2Model ----
(***************************************************************************)
(* Model of the Copart live-auction monitor (auction_monitor/              *)
(* monitor_simple.py) and of the web application that starts and stops it  *)
(* (auction_monitor/app_simple.py).                                        *)
(*                                                                         *)
(* The browser automation driver is the environment: the page it shows is  *)
(* a map from CSS selector to what a probe of that selector does, and every*)
(* driver call may also fail because the execution context was destroyed.  *)
(***************************************************************************)
EXTENDS Integers, Sequences, FiniteSets, TLC

(***************************************************************************)
(* Bounds of the model.                                                    *)
(***************************************************************************)
\* accepted start requests (monitor objects and threads made)
MaxStarts == 2
\* times the auction page is reloaded under a running session
MaxReloads == 1
\* listeners counted on one page or context; more count as this many
MaxListeners == 3
\* mutation batches the script counts; more count as this many
MaxMutations == 3
\* RequestThrottler: requests_per_minute, the 60 s of its window in ticks of
\* the clock, the last tick and the number of calls of throttle()
requests_per_minute == 2
Window == 3
MaxTime == 5
MaxCalls == 5

(***************************************************************************)
(* Program constants.                                                      *)
(***************************************************************************)
\* Python None / JSON null
NULL == "<None>"

(***************************************************************************)
(* The page as the driver shows it.  A selector probe is in one of:        *)
(*   "absent"  no visible element (is_visible is False, count is 0)        *)
(*   "raises"  the driver call raises                                      *)
(*   "blank"   a visible element whose text is only white space            *)
(*   "text"    a visible element with text that holds no digit             *)
(*   "num"     a visible element with text that holds digits               *)
(***************************************************************************)
CandState == {"absent", "raises", "blank", "text", "num"}

title_selectors ==
    << ".titlelbl.ellipsis[title]", ".lot-title", ".vehicle-title", "h1",
       "[data-uname*=title]" >>

lot_number_selectors ==
    << ".itempair .titlelbl.ellipsis[href*=lot/]", ".lot-number", ".lot-num",
       "#LotNumber", "span[data-uname=lotdetailVinvalue]", "[data-uname*=lot]" >>

\* the SVG text the bid is first looked for in
bid_text_elem == ".auctionrunningdiv-MACRO text[fill=#0757ac]"

bid_selectors ==
    << ".current-bid", ".bid-amount", ".bid-price", "[data-uname*=bid]",
       "input[name=bidAmount]" >>

\* the SVG texts the bidder is first looked for in
bidder_texts == ".auctionrunningdiv-MACRO text[fill=black]"

bidder_selectors == << ".current-bidder", ".bidder-name", ".winning-bidder" >>

time_selectors ==
    << ".time-remaining", ".countdown", ".time-left", "[data-uname*=time]",
       ".countdown-timer", ".auction-timer", ".time-display",
       "[class*=countdown]", "[class*=timer]" >>

bidders_selectors == << ".active-bidders", ".bidder-count", ".bidders-online" >>

Range(seq) == {seq[i] : i \in 1..Len(seq)}

Selectors ==
    Range(title_selectors) \cup Range(lot_number_selectors)
      \cup {bid_text_elem} \cup Range(bid_selectors)
      \cup {bidder_texts} \cup Range(bidder_selectors)
      \cup Range(time_selectors) \cup Range(bidders_selectors)

\* the digit string that the text of the i-th candidate of a list holds
DigitStr == << "1", "2", "3", "4", "5", "6", "7", "8", "9" >>

\* text_content() of the element a selector finds, with its white space
RawText(sel, i, st) ==
    IF st = "blank" THEN "  "
    ELSE IF st = "num" THEN " " \o DigitStr[i] \o " in " \o sel \o " "
    ELSE " text of " \o sel \o " "

\* str.strip() of that text
Stripped(sel, i, st) ==
    IF st = "blank" THEN ""
    ELSE IF st = "num" THEN DigitStr[i] \o " in " \o sel
    ELSE "text of " \o sel

\* is_visible(): True for an element that is there, whatever its text
Visible(st) == st \in {"blank", "text", "num"}

(***************************************************************************)
(* _extract_auction_data and the passes it calls.  Each pass takes the     *)
(* data so far and returns the data after it; el is the page of the frame. *)
(***************************************************************************)
\* the dictionary _extract_auction_data starts from
DefaultData ==
    [ auction_id     |-> "Unknown",
      lot_title      |-> "N/A",
      lot_number     |-> "N/A",
      current_bid    |-> "N/A",
      current_bidder |-> "N/A",
      time_remaining |-> "N/A",
      active_bidders |-> 0,
      status         |-> "unknown",
      last_update    |-> "now" ]

TrackedKeys == DOMAIN DefaultData

RECURSIVE TitleLoop(_, _, _)
TitleLoop(el, i, data) ==
    IF i > Len(title_selectors) THEN data
    ELSE LET sel == title_selectors[i]
             st  == el[sel]
         IN  IF st # "raises" /\ Visible(st) /\ Stripped(sel, i, st) # ""
             THEN [data EXCEPT !.lot_title = Stripped(sel, i, st)]
             ELSE TitleLoop(el, i + 1, data)

RECURSIVE LotNumberLoop(_, _, _)
LotNumberLoop(el, i, data) ==
    IF i > Len(lot_number_selectors) THEN data
    ELSE LET sel == lot_number_selectors[i]
             st  == el[sel]
         IN  IF st = "num"
             THEN [data EXCEPT !.lot_number = DigitStr[i]]
             ELSE LotNumberLoop(el, i + 1, data)

\* the lot details read without asking whether a frame was resolved
_extract_lot_details_from_main_page_unguarded(frame, el, data) ==
    LotNumberLoop(el, 1, TitleLoop(el, 1, data))

\* lines 835-896: nothing is read without a frame, line 838
_extract_lot_details_from_main_page(frame, el, data) ==
    IF ~frame THEN data
    ELSE LotNumberLoop(el, 1, TitleLoop(el, 1, data))

RECURSIVE BidLoop(_, _, _)
BidLoop(el, i, data) ==
    IF i > Len(bid_selectors) THEN data
    ELSE LET sel == bid_selectors[i]
             st  == el[sel]
         IN  IF st = "raises" \/ ~Visible(st)
             THEN BidLoop(el, i + 1, data)
             ELSE IF sel = "input[name=bidAmount]" /\ st # "blank"
                  THEN [data EXCEPT !.current_bid = Stripped(sel, i, st)]
                  ELSE [data EXCEPT !.current_bid = RawText(sel, i, st)]

\* current bid, lines 951-983: the fallback selectors are tried when the SVG
\* text is not visible; a probe of the SVG text that raises ends the pass
ExtractBid(el, data) ==
    LET st == el[bid_text_elem]
    IN  IF st = "raises" THEN data
        ELSE IF Visible(st)
             THEN IF Stripped(bid_text_elem, 1, st) # ""
                  THEN [data EXCEPT !.current_bid = Stripped(bid_text_elem, 1, st)]
                  ELSE data
             ELSE BidLoop(el, 1, data)

RECURSIVE BidderLoop(_, _, _)
BidderLoop(el, i, data) ==
    IF i > Len(bidder_selectors) THEN data
    ELSE LET sel == bidder_selectors[i]
             st  == el[sel]
         IN  IF st = "raises" \/ ~Visible(st)
             THEN BidderLoop(el, i + 1, data)
             ELSE [data EXCEPT !.current_bidder = RawText(sel, i, st)]

\* current bidder, lines 985-1012: the fallback selectors are in the except
\* clause, tried only when reading the SVG texts raises
ExtractBidder(el, data) ==
    LET st == el[bidder_texts]
    IN  IF st = "raises" THEN BidderLoop(el, 1, data)
        ELSE IF st \in {"text", "num"}
             THEN [data EXCEPT !.current_bidder = Stripped(bidder_texts, 1, st)]
             ELSE data

RECURSIVE TimeLoop(_, _, _)
TimeLoop(el, i, data) ==
    IF i > Len(time_selectors) THEN data
    ELSE LET sel == time_selectors[i]
             st  == el[sel]
         IN  IF st # "raises" /\ Visible(st) /\ Stripped(sel, i, st) # ""
             THEN [data EXCEPT !.time_remaining = Stripped(sel, i, st)]
             ELSE TimeLoop(el, i + 1, data)

RECURSIVE BiddersLoop(_, _, _)
BiddersLoop(el, i, data) ==
    IF i > Len(bidders_selectors) THEN data
    ELSE LET sel == bidders_selectors[i]
             st  == el[sel]
         IN  IF st = "raises" \/ ~Visible(st)
             THEN BiddersLoop(el, i + 1, data)
             ELSE IF st = "num"
                  THEN [data EXCEPT !.active_bidders = i]
                  ELSE data

_extract_data_from_iframe(el, data) ==
    BiddersLoop(el, 1, TimeLoop(el, 1, ExtractBidder(el, ExtractBid(el, data))))

\* _check_main_page_auction_status: the ended indicators are looked for after
\* the live ones and overwrite them; a probe that raises is skipped
_check_main_page_auction_status(pg, data) ==
    IF pg.destroyed THEN data
    ELSE IF pg.ended THEN [data EXCEPT !.status = "ended"]
    ELSE IF pg.live THEN [data EXCEPT !.status = "active"]
    ELSE data

\* what the probes of the frame's selectors do: everything raises once the
\* execution context is destroyed
View(pg) ==
    IF pg.destroyed THEN [s \in Selectors |-> "raises"] ELSE pg.el

\* the body of the try block of _extract_auction_data: the data it has built
\* and the exception that leaves it ("none" when it runs to its end)
ExtractTry(page_state, frame, pg) ==
    IF page_state = "none"
    THEN [data |-> DefaultData, exc |-> "AttributeError"]
    ELSE IF page_state = "closed"
    THEN [data |-> DefaultData, exc |-> "none"]
    ELSE LET d1 == IF pg.url_id
                   THEN [DefaultData EXCEPT !.auction_id = "12345"]
                   ELSE DefaultData
             d2 == _extract_lot_details_from_main_page(frame, View(pg), d1)
             d3 == _check_main_page_auction_status(pg, d2)
             d4 == IF frame
                   THEN _extract_data_from_iframe(View(pg), d3)
                   ELSE d3
         IN  [data |-> d4, exc |-> "none"]

\* _extract_auction_data without its try blocks: the first probe that raises
\* ends it, and the caller gets the exception and no data
_extract_auction_data_uncaught(page_state, frame, pg) ==
    IF page_state = "open" /\ \E s \in Selectors : View(pg)[s] = "raises"
    THEN [data |-> [none |-> TRUE], exc |-> "destroyed"]
    ELSE ExtractTry(page_state, frame, pg)

\* _extract_auction_data: whatever leaves the try block is caught and printed,
\* and the data built so far is returned
_extract_auction_data(page_state, frame, pg) ==
    [data |-> ExtractTry(page_state, frame, pg).data, exc |-> "none"]

(***************************************************************************)
(* The push decoder, _handle_console_message.  A console message is        *)
(* [text, json_ok, json]: its text as the sequence of its pieces, whether  *)
(* what follows the first piece is JSON, and the object that JSON decodes  *)
(* to, a record of the keys it carries.                                    *)
(***************************************************************************)
\* str.startswith(prefix)
StartsWith(text, prefix) == Len(text) > 0 /\ text[1] = prefix

\* the prefix test as a substring test: the tag anywhere in the line
TagOf_anywhere(text) ==
    IF \E i \in 1..Len(text) : text[i] = "BID_CHANGE:" THEN "BID_CHANGE"
    ELSE IF \E i \in 1..Len(text) : text[i] = "AUCTION_UPDATE:" THEN "AUCTION_UPDATE"
    ELSE "other"

\* the branch of _handle_console_message a text takes, lines 1350 and 1409
TagOf(text) ==
    IF StartsWith(text, "BID_CHANGE:") THEN "BID_CHANGE"
    ELSE IF StartsWith(text, "AUCTION_UPDATE:") THEN "AUCTION_UPDATE"
    ELSE "other"

\* current_auction_data before the first extraction: None
NoData == [none |-> TRUE]

\* the local auction_data of _monitor_auction while no extraction is in flight
NoResult == [data |-> NoData, exc |-> "none", ctx_destroyed |-> FALSE,
             page |-> NoData]

HasData(cad) == "none" \notin DOMAIN cad

\* dict.get(key, default)
Get(d, key, default) == IF key \in DOMAIN d THEN d[key] ELSE default

\* dict.update(upd)
Update(d, upd) ==
    [k \in DOMAIN d \cup DOMAIN upd |-> IF k \in DOMAIN upd THEN upd[k] ELSE d[k]]

\* the BID_CHANGE branch, lines 1355-1371
MergeBidChange(cad, bid_data) ==
    LET current_lot_title  == Get(bid_data, "lotTitle", Get(cad, "lot_title", "N/A"))
        current_lot_number == Get(bid_data, "lotNumber", Get(cad, "lot_number", "N/A"))
        c1 == IF current_lot_title # "N/A"
              THEN Update(cad, [lot_title |-> current_lot_title]) ELSE cad
        c2 == IF current_lot_number # "N/A"
              THEN Update(c1, [lot_number |-> current_lot_number]) ELSE c1
    IN  Update(c2, [ current_bid    |-> Get(bid_data, "bid", "N/A"),
                     current_bidder |-> Get(bid_data, "bidder", "N/A"),
                     bid_suggestion |-> Get(bid_data, "bidSuggestion", "N/A") ])

\* the auction_update payload a BID_CHANGE is followed by, lines 1396-1404;
\* old is the snapshot the handler found
BidChangeEmit(is_mon, old, new, bid_data) ==
    [ event           |-> "auction_update",
      is_monitoring   |-> is_mon,
      current_auction |-> new,
      last_update     |-> "push",
      content_change  |-> TRUE,
      lot_title       |-> Get(bid_data, "lotTitle", Get(old, "lot_title", "N/A")),
      lot_number      |-> Get(bid_data, "lotNumber", Get(old, "lot_number", "N/A")),
      bid_suggestion  |-> Get(bid_data, "bidSuggestion", "N/A") ]

\* a handler that starts from the default dictionary when there is no
\* snapshot yet
_handle_console_message_from_default(is_mon, cad, lu, msg) ==
    LET old == IF HasData(cad) THEN cad ELSE DefaultData IN
    IF TagOf(msg.text) = "BID_CHANGE" /\ msg.json_ok
    THEN LET new == MergeBidChange(old, msg.json)
         IN  [ cad |-> new, last_update |-> "push",
               emits |-> << [event |-> "bid_change_notification"],
                            BidChangeEmit(is_mon, old, new, msg.json) >>,
               raised |-> FALSE ]
    ELSE IF TagOf(msg.text) = "AUCTION_UPDATE" /\ msg.json_ok
    THEN [ cad |-> Update(old, msg.json), last_update |-> "push",
           emits |-> << >>, raised |-> FALSE ]
    ELSE [ cad |-> cad, last_update |-> lu, emits |-> << >>, raised |-> FALSE ]

\* the whole handler: the snapshot, last_update and the broadcasts after it,
\* and whether an exception leaves it. Any exception (no snapshot yet, text
\* that is no JSON) is swallowed, lines 1421-1423.
_handle_console_message(is_mon, cad, lu, msg) ==
    IF TagOf(msg.text) = "BID_CHANGE" /\ msg.json_ok /\ HasData(cad)
    THEN LET new == MergeBidChange(cad, msg.json)
         IN  [ cad |-> new, last_update |-> "push",
               emits |-> << [event |-> "bid_change_notification"],
                            BidChangeEmit(is_mon, cad, new, msg.json) >>,
               raised |-> FALSE ]
    ELSE IF TagOf(msg.text) = "AUCTION_UPDATE" /\ msg.json_ok /\ HasData(cad)
    THEN [ cad |-> Update(cad, msg.json), last_update |-> "push",
           emits |-> << >>, raised |-> FALSE ]
    ELSE [ cad |-> cad, last_update |-> lu, emits |-> << >>, raised |-> FALSE ]

\* page.on('console', ...) calls every registered listener: the decoder runs
\* once for each time line 1338 registered it, each run on what the run
\* before it left
RECURSIVE Deliver(_, _, _, _, _)
Deliver(n, is_mon, cad, lu, msg) ==
    IF n = 0
    THEN [ cad |-> cad, last_update |-> lu, emits |-> << >>, raised |-> FALSE ]
    ELSE LET r    == _handle_console_message(is_mon, cad, lu, msg)
             rest == Deliver(n - 1, is_mon, r.cad, r.last_update, msg)
         IN  [ cad |-> rest.cad, last_update |-> rest.last_update,
               emits |-> r.emits \o rest.emits,
               raised |-> r.raised \/ rest.raised ]

(***************************************************************************)
(* State.                                                                  *)
(***************************************************************************)
VARIABLES
    monitor,              \* app_simple.monitor: 0 is None, else the object
    monitor_thread,       \* app_simple.monitor_thread: 0 is None
    created,              \* AuctionMonitor objects (and threads) made so far
    response,             \* what the last step answered, "none" if no request
    is_monitoring,        \* per monitor object
    current_auction_data, \* per monitor object, NoData is None
    last_update,          \* per monitor object: which statement set it last
    browser,              \* per monitor object: "none", "open", "closed"
    auction_frame,        \* per monitor object: a frame locator was resolved
    since_health_check,   \* per monitor: time since _last_health_check:
                          \*   "unset" (no such attribute yet), "within"
                          \*   (at most 30 s) or "over" (more than 30 s)
    console_listeners,    \* per monitor: _handle_console_message registrations
    context,              \* per monitor: generation of the page's context
    observer_context,     \* per monitor: generation the observer lives in, -1 none
    pc,                   \* per thread: where it is
    self_,                \* per thread: the monitor its start_monitoring runs on
    auction_data,         \* per thread: result of the extraction in flight
    site,                 \* what the auction page shows now
    emitted,              \* what the last step sent to the subscribers
    stop_called,          \* per monitor: stop_monitoring was called on it
    consecutive_stops,    \* stop requests since the last other step, 2 for more
    recovery_attempts,    \* per monitor: times lines 751-754 re-resolved the frame
    broadcasts,           \* per monitor: initial_load broadcasts sent (2 for
                          \*   more), and whether a content_change broadcast
                          \*   came before the first of them
    received,             \* the console message the last step decoded
    network_listeners,    \* per monitor: request/response handler pairs on the
                          \*   browser context self.context refers to
    socketio,             \* what socketio.emit does now: "ok" or "raises"
    throttler,            \* a RequestThrottler and its callers: the clock, its
                          \*   request_times, the calls asleep in throttle()
                          \*   (their now and the time their sleep ends) and
                          \*   the times at which calls returned
    observer_js,          \* the injected script in the frame: its lastBid,
                          \*   lastBidder and mutationCount, the anchor, bid and
                          \*   bidder the frame shows, what the last batch
                          \*   logged, and the values of the last push line
    pull_race             \* per monitor: "push_in_flight" once a push has
                          \*   changed the snapshot while a health-check
                          \*   extraction is in flight, "overwritten" once that
                          \*   health check has assigned, else "none"

vars == << monitor, monitor_thread, created, response, is_monitoring,
           current_auction_data, last_update, browser, auction_frame,
           since_health_check, console_listeners, context, observer_context,
           pc, self_, auction_data, site, emitted, stop_called, consecutive_stops,
           recovery_attempts, broadcasts, received, network_listeners,
           observer_js, socketio, throttler, pull_race >>

Mon == 1..MaxStarts
Thr == 1..MaxStarts

(***************************************************************************)
(* Pages the site shows while a session runs.                              *)
(***************************************************************************)
Absent == [s \in Selectors |-> "absent"]

With(el, shown) == [s \in Selectors |-> IF s \in DOMAIN shown THEN shown[s] ELSE el[s]]

\* the live auction as Copart renders it: bid and bidder as SVG text
PageLive ==
    [ el |-> With(Absent, (bid_text_elem :> "text" @@ bidder_texts :> "text"
                           @@ title_selectors[1] :> "text"
                           @@ lot_number_selectors[1] :> "num"
                           @@ time_selectors[1] :> "text"
                           @@ bidders_selectors[1] :> "num")),
      url_id |-> TRUE, live |-> TRUE, ended |-> FALSE, destroyed |-> FALSE ]

\* a page that shows bid and bidder only in the fallback elements
PageFallback ==
    [ el |-> With(Absent, (bid_selectors[2] :> "text"
                           @@ bidder_selectors[1] :> "text"
                           @@ title_selectors[2] :> "text")),
      url_id |-> TRUE, live |-> FALSE, ended |-> FALSE, destroyed |-> FALSE ]

SpecPages == {PageLive, PageFallback}

(***************************************************************************)
(* Console messages that reach the decoder while a session runs.           *)
(***************************************************************************)
Msg(tag, json) ==
    [text |-> << tag \o ":", "json" >>, json_ok |-> TRUE, json |-> json]

\* no console message
NoMessage == [none |-> TRUE]

(***************************************************************************)
(* The injected script, observer_js.  What it reads from the frame is the  *)
(* record [anchor, bid, bidder]: whether .auctionrunningdiv-MACRO exists,  *)
(* the first blue text that starts with $ and the first black text that is *)
(* neither Bid! nor an amount, NULL when there is none.                    *)
(***************************************************************************)
\* getCurrentBidInfo, lines 1178-1270: null without the anchor
getCurrentBidInfo(dom) ==
    IF ~dom.anchor THEN NoData
    ELSE [bid |-> dom.bid, bidder |-> dom.bidder]

\* an observer callback that logs whenever bid and bidder are there
MutationCallback_no_diff(js, dom) ==
    LET bidInfo == getCurrentBidInfo(dom)
        count   == IF js.mutationCount < MaxMutations
                   THEN js.mutationCount + 1 ELSE js.mutationCount
    IN  IF HasData(bidInfo) /\ bidInfo.bid # NULL /\ bidInfo.bidder # NULL
        THEN [ lastBid |-> bidInfo.bid, lastBidder |-> bidInfo.bidder,
               mutationCount |-> count,
               logged |-> << Msg("BID_CHANGE", bidInfo) >> ]
        ELSE [ lastBid |-> js.lastBid, lastBidder |-> js.lastBidder,
               mutationCount |-> count, logged |-> << >> ]

\* the MutationObserver callback, lines 1277-1290: the script's variables
\* after a batch and the push lines it logged
MutationCallback(js, dom) ==
    LET bidInfo == getCurrentBidInfo(dom)
        count   == IF js.mutationCount < MaxMutations
                   THEN js.mutationCount + 1 ELSE js.mutationCount
    IN  IF /\ HasData(bidInfo) /\ bidInfo.bid # NULL /\ bidInfo.bidder # NULL
           /\ (bidInfo.bid # js.lastBid \/ bidInfo.bidder # js.lastBidder)
        THEN [ lastBid |-> bidInfo.bid, lastBidder |-> bidInfo.bidder,
               mutationCount |-> count,
               logged |-> << Msg("BID_CHANGE", bidInfo) >> ]
        ELSE [ lastBid |-> js.lastBid, lastBidder |-> js.lastBidder,
               mutationCount |-> count, logged |-> << >> ]

\* what the frame can show of the bid and the bidder
Doms ==
    [ anchor : BOOLEAN, bid : {NULL, "$1,300", "$1,350"},
      bidder : {NULL, "CA-123", "CA-456"} ]

\* the script as line 1318 installs it: lastBid and lastBidder null, no
\* mutation seen (lines 1173-1175)
ObserverInstalled ==
    [ lastBid |-> NULL, lastBidder |-> NULL, mutationCount |-> 0,
      dom |-> [anchor |-> TRUE, bid |-> NULL, bidder |-> NULL],
      logged |-> << >>, last_pushed |-> NoData ]

\* what the injected observer logs on a page without title, lot number and
\* bid input elements, line 1285
BidChangeLine ==
    Msg("BID_CHANGE", [bid |-> "$1,350", bidder |-> "CA-456",
                       bidSuggestion |-> NULL, lotTitle |-> NULL,
                       lotNumber |-> NULL, timestamp |-> "ts"])

\* the observer's line and the site's own logging
ObserverMessages == { BidChangeLine, Msg("other", << >>) }

SpecMessages ==
    ObserverMessages \cup
    { Msg("BID_CHANGE", [bid |-> "$1,300"]),
      Msg("BID_CHANGE", [bidder |-> "CA-123"]),
      Msg("AUCTION_UPDATE", [current_bid |-> "$1,400"]),
      \* tagged lines that are no JSON
      [text |-> << "BID_CHANGE:", "{" >>, json_ok |-> FALSE, json |-> << >>],
      [text |-> << "AUCTION_UPDATE:", "" >>, json_ok |-> FALSE, json |-> << >>],
      \* lines that hold a tag and JSON but do not start with the tag
      [text |-> << " ", "BID_CHANGE:", "json" >>, json_ok |-> TRUE,
       json |-> [bid |-> "$9,999", bidder |-> "ZZ-999"]],
      [text |-> << "bid_change:", "json" >>, json_ok |-> TRUE,
       json |-> [bid |-> "$9,999", bidder |-> "ZZ-999"]],
      [text |-> << "Logged ", "AUCTION_UPDATE:", "json" >>, json_ok |-> TRUE,
       json |-> [current_bid |-> "$9,999"]] }

(***************************************************************************)
(* Initial state: the application has just been started.                   *)
(***************************************************************************)
InitWith(pages) ==
    /\ monitor = 0
    /\ monitor_thread = 0
    /\ created = 0
    /\ response = "none"
    /\ is_monitoring = [m \in Mon |-> FALSE]
    /\ current_auction_data = [m \in Mon |-> NoData]
    /\ last_update = [m \in Mon |-> "None"]
    /\ browser = [m \in Mon |-> "none"]
    /\ auction_frame = [m \in Mon |-> FALSE]
    /\ since_health_check = [m \in Mon |-> "unset"]
    /\ console_listeners = [m \in Mon |-> 0]
    /\ context = [m \in Mon |-> 0]
    /\ observer_context = [m \in Mon |-> -1]
    /\ pc = [t \in Thr |-> "unborn"]
    /\ self_ = [t \in Thr |-> 0]
    /\ auction_data = [t \in Thr |-> NoResult]
    /\ site \in pages
    /\ emitted = << >>
    /\ stop_called = [m \in Mon |-> FALSE]
    /\ consecutive_stops = 0
    /\ recovery_attempts = [m \in Mon |-> 0]
    /\ network_listeners = [m \in Mon |-> 0]
    /\ observer_js = ObserverInstalled
    /\ socketio = "ok"
    /\ throttler = [ clock |-> 0, request_times |-> << >>, sleeping |-> << >>,
                     returned |-> << >> ]
    /\ broadcasts = [m \in Mon |-> [initial_loads |-> 0, change_first |-> FALSE]]
    /\ pull_race = [m \in Mon |-> "none"]
    /\ received = NoMessage

Init == InitWith({PageLive})

(***************************************************************************)
(* Request handlers of app_simple.py.                                      *)
(***************************************************************************)
monitor_vars == << is_monitoring, current_auction_data, last_update, browser,
                   auction_frame, since_health_check, console_listeners,
                   context, observer_context >>

thread_vars == << pc, self_, auction_data >>

\* POST /api/start
app_start_monitoring(has_url, max_starts) ==
    /\ IF ~has_url
       THEN /\ response' = "url_required"
            /\ UNCHANGED << monitor, monitor_thread, created, pc >>
       ELSE IF monitor # 0 /\ is_monitoring[monitor]
       THEN /\ response' = "already_monitoring"
            /\ UNCHANGED << monitor, monitor_thread, created, pc >>
       ELSE /\ created < max_starts
            /\ created' = created + 1
            /\ monitor' = created + 1
            /\ monitor_thread' = created + 1
            /\ pc' = [pc EXCEPT ![created + 1] = "spawned"]
            /\ response' = "started"
    /\ emitted' = << >>
    /\ consecutive_stops' = 0
    /\ received' = NoMessage
    /\ UNCHANGED << monitor_vars, self_, auction_data, site, stop_called,
                    recovery_attempts, broadcasts, pull_race,
                    network_listeners, observer_js, socketio, throttler >>

\* stop_monitoring without its try blocks: a cleanup script that cannot run
\* raises out of it, before line 128
stop_monitoring_uncaught(frame, page_exists, cleanup_ok) ==
    IF frame /\ page_exists /\ ~cleanup_ok
    THEN [is_monitoring |-> TRUE, raised |-> TRUE]
    ELSE [is_monitoring |-> FALSE, raised |-> FALSE]

\* the payload handle_request_status answers with, lines 47-58
StatusEmit(mon, is_mon, cad, lu) ==
    IF mon # 0
    THEN [ event           |-> "auction_update",
           is_monitoring   |-> is_mon[mon],
           current_auction |-> cad[mon],
           last_update     |-> lu[mon] ]
    ELSE [ event           |-> "auction_update",
           is_monitoring   |-> FALSE,
           current_auction |-> NoData,
           last_update     |-> "None" ]

\* socket event request_status
handle_request_status ==
    /\ emitted' = << StatusEmit(monitor, is_monitoring, current_auction_data,
                                last_update) >>
    /\ response' = "none"
    /\ consecutive_stops' = 0
    /\ received' = NoMessage
    /\ UNCHANGED << monitor, monitor_thread, created, monitor_vars, pc, self_,
                    auction_data, site, stop_called, recovery_attempts,
                    broadcasts, pull_race, network_listeners, observer_js, socketio, throttler >>

\* AuctionMonitor.stop_monitoring: the cleanup script is tried when a frame
\* and a page exist, and what it raises is caught
stop_monitoring(frame, page_exists, cleanup_ok) ==
    IF frame /\ page_exists /\ ~cleanup_ok
    THEN [is_monitoring |-> FALSE, raised |-> FALSE]
    ELSE [is_monitoring |-> FALSE, raised |-> FALSE]

\* POST /api/stop; join(timeout=5) returns whether or not the thread ended
app_stop_monitoring(cleanup_ok) ==
    LET r == stop_monitoring(auction_frame[monitor], browser[monitor] # "none",
                             cleanup_ok)
    IN
    /\ IF monitor # 0
       THEN /\ is_monitoring' = [is_monitoring EXCEPT ![monitor] =
                                   IF r.raised THEN @ ELSE r.is_monitoring]
            /\ stop_called' = [stop_called EXCEPT ![monitor] = TRUE]
            /\ monitor' = IF r.raised THEN monitor ELSE 0
            /\ monitor_thread' = IF r.raised THEN monitor_thread ELSE 0
            /\ response' = IF r.raised THEN "error" ELSE "stopped"
       ELSE /\ monitor' = 0
            /\ monitor_thread' = 0
            /\ response' = "stopped"
            /\ UNCHANGED << is_monitoring, stop_called >>
    /\ emitted' = << >>
    /\ consecutive_stops' = IF consecutive_stops = 0 THEN 1 ELSE 2
    /\ received' = NoMessage
    /\ UNCHANGED << created, current_auction_data, last_update, browser,
                    auction_frame, since_health_check, console_listeners,
                    context, observer_context, thread_vars, site,
                    recovery_attempts, broadcasts, pull_race,
                    network_listeners, observer_js, socketio, throttler >>

(***************************************************************************)
(* The monitoring thread: start_monitoring_thread runs                     *)
(* AuctionMonitor.start_monitoring, one action from one await to the next. *)
(***************************************************************************)
\* the except and finally clauses of start_monitoring, lines 75-80
Failed(m) ==
    /\ is_monitoring' = [is_monitoring EXCEPT ![m] = FALSE]
    /\ browser' = [browser EXCEPT ![m] = IF @ = "none" THEN "none" ELSE "closed"]

app_vars == << monitor, monitor_thread, created >>

\* asyncio.run(monitor.start_monitoring(auction_url)): the global is read
\* when the thread gets to run; None has no start_monitoring
start_monitoring_thread(t) ==
    /\ pc[t] = "spawned"
    /\ IF monitor = 0
       THEN /\ pc' = [pc EXCEPT ![t] = "done"]
            /\ UNCHANGED self_
       ELSE /\ pc' = [pc EXCEPT ![t] = "entered"]
            /\ self_' = [self_ EXCEPT ![t] = monitor]
    /\ emitted' = << >>
    /\ response' = "none"
    /\ consecutive_stops' = 0
    /\ received' = NoMessage
    /\ UNCHANGED << app_vars, monitor_vars, auction_data, site, stop_called,
                    recovery_attempts, broadcasts, pull_race,
                    network_listeners, observer_js, socketio, throttler >>

\* start_monitoring, line 52, up to the first await
start_monitoring(t) ==
    /\ pc[t] = "entered"
    /\ is_monitoring' = [is_monitoring EXCEPT ![self_[t]] = TRUE]
    /\ pc' = [pc EXCEPT ![t] = "login"]
    /\ emitted' = << >>
    /\ response' = "none"
    /\ consecutive_stops' = 0
    /\ received' = NoMessage
    /\ UNCHANGED << app_vars, current_auction_data, last_update, browser,
                    auction_frame, since_health_check, console_listeners,
                    context, observer_context, self_, auction_data, site,
                    stop_called,
                    recovery_attempts, broadcasts, pull_race,
                    network_listeners, observer_js, socketio, throttler >>

\* _init_browser and _login_to_copart: the launch may fail before a browser
\* exists, the login may fail after
_login_to_copart(t, outcome) ==
    LET m == self_[t] IN
    /\ pc[t] = "login"
    /\ IF outcome = "ok"
       THEN /\ browser' = [browser EXCEPT ![m] = "open"]
            /\ pc' = [pc EXCEPT ![t] = "navigate"]
            /\ UNCHANGED is_monitoring
       ELSE IF outcome = "launch_fails"
       THEN /\ Failed(m)
            /\ pc' = [pc EXCEPT ![t] = "done"]
       ELSE /\ is_monitoring' = [is_monitoring EXCEPT ![m] = FALSE]
            /\ browser' = [browser EXCEPT ![m] = "open"]
            /\ pc' = [pc EXCEPT ![t] = "finally"]
    /\ IF outcome = "launch_fails"
       THEN UNCHANGED << console_listeners, network_listeners >>
       ELSE /\ console_listeners' = [console_listeners EXCEPT ![m] = 0]
            /\ network_listeners' = [network_listeners EXCEPT ![m] = 0]
    /\ emitted' = << >>
    /\ response' = "none"
    /\ consecutive_stops' = 0
    /\ received' = NoMessage
    /\ UNCHANGED << app_vars, current_auction_data, last_update,
                    auction_frame, since_health_check,
                    context, observer_context, self_, auction_data, site,
                    stop_called,
                    recovery_attempts, broadcasts, pull_race, observer_js, socketio, throttler >>

\* _setup_network_monitoring, lines 1137-1138: one more request handler and
\* one more response handler on the context, at every call
_setup_network_monitoring(n) == IF n < MaxListeners THEN n + 1 ELSE n

\* _navigate_to_auction: goto may raise; the frame is resolved anew or not,
\* and both ways out pass through _setup_network_monitoring (lines 672, 700)
_navigate_to_auction(t, goto_ok, frame_found) ==
    LET m == self_[t] IN
    /\ pc[t] = "navigate"
    /\ IF goto_ok /\ browser[m] = "open"
       THEN /\ auction_frame' = [auction_frame EXCEPT ![m] = frame_found]
            /\ network_listeners' = [network_listeners EXCEPT ![m] =
                                       _setup_network_monitoring(@)]
            /\ pc' = [pc EXCEPT ![t] = "setup_observer"]
            /\ UNCHANGED << is_monitoring, browser >>
       ELSE /\ is_monitoring' = [is_monitoring EXCEPT ![m] = FALSE]
            /\ pc' = [pc EXCEPT ![t] = "finally"]
            /\ UNCHANGED << browser, auction_frame, network_listeners >>
    /\ emitted' = << >>
    /\ response' = "none"
    /\ consecutive_stops' = 0
    /\ received' = NoMessage
    /\ UNCHANGED << app_vars, current_auction_data, last_update,
                    since_health_check, console_listeners,
                    context, observer_context, self_, auction_data, site,
                    stop_called,
                    recovery_attempts, broadcasts, pull_race, observer_js, socketio, throttler >>

\* an installer whose failure ends the session: without a frame, or when the
\* observer could not be installed, the error leaves start_monitoring
_setup_mutation_observer_fatal(t, installed) ==
    LET m == self_[t] IN
    /\ pc[t] = "setup_observer"
    /\ IF auction_frame[m] /\ browser[m] = "open" /\ installed
       THEN /\ console_listeners' = [console_listeners EXCEPT ![m] = @ + 1]
            /\ observer_context' = [observer_context EXCEPT ![m] = context[m]]
            /\ pc' = [pc EXCEPT ![t] = "initial_extract"]
            /\ UNCHANGED << is_monitoring, browser >>
       ELSE /\ Failed(m)
            /\ pc' = [pc EXCEPT ![t] = "done"]
            /\ UNCHANGED << console_listeners, observer_context >>
    /\ emitted' = << >>
    /\ response' = "none"
    /\ consecutive_stops' = 0
    /\ received' = NoMessage
    /\ UNCHANGED << app_vars, current_auction_data, last_update,
                    auction_frame, since_health_check, context,
                    self_, auction_data, site, stop_called,
                    recovery_attempts, broadcasts, pull_race,
                    network_listeners, observer_js, socketio, throttler >>

\* _setup_mutation_observer: nothing without a frame; else the script is
\* injected (the observer exists if that worked and the anchor node is there)
\* and the decoder is registered on the console stream. Never raises.
_setup_mutation_observer(t, installed) ==
    LET m == self_[t] IN
    /\ pc[t] = "setup_observer"
    /\ IF auction_frame[m] /\ browser[m] = "open"
       THEN /\ console_listeners' = [console_listeners EXCEPT ![m] = @ + 1]
            /\ observer_context' = [observer_context EXCEPT ![m] =
                                      IF installed THEN context[m] ELSE @]
       ELSE UNCHANGED << console_listeners, observer_context >>
    /\ pc' = [pc EXCEPT ![t] = "initial_extract"]
    /\ emitted' = << >>
    /\ response' = "none"
    /\ consecutive_stops' = 0
    /\ received' = NoMessage
    /\ UNCHANGED << app_vars, is_monitoring, current_auction_data, last_update,
                    browser, auction_frame, since_health_check, context,
                    self_, auction_data, site, stop_called,
                    recovery_attempts, broadcasts, pull_race,
                    network_listeners, observer_js, socketio, throttler >>

\* the start of a pull: _extract_auction_data reads the page. The driver may
\* report the execution context destroyed (the page was reloaded under it);
\* ctx_destroyed records that it did and page what the site showed, for the
\* properties only
StartExtraction(t, destroyed) ==
    LET m == self_[t] IN
    /\ destroyed => context[m] < MaxReloads
    /\ auction_data' = [auction_data EXCEPT ![t] =
           LET r == _extract_auction_data(browser[m], auction_frame[m],
                                          [site EXCEPT !.destroyed = destroyed])
           IN  [data |-> r.data, exc |-> r.exc, ctx_destroyed |-> destroyed,
                page |-> site]]
    /\ context' = [context EXCEPT ![m] = IF destroyed THEN @ + 1 ELSE @]

\* _monitor_auction, line 707: the initial extraction starts
initial_extraction(t, destroyed) ==
    /\ pc[t] = "initial_extract"
    /\ StartExtraction(t, destroyed)
    /\ pc' = [pc EXCEPT ![t] = "initial_assign"]
    /\ emitted' = << >>
    /\ response' = "none"
    /\ consecutive_stops' = 0
    /\ received' = NoMessage
    /\ UNCHANGED << app_vars, is_monitoring, current_auction_data, last_update,
                    browser, auction_frame, since_health_check,
                    console_listeners, observer_context, self_, site,
                    stop_called,
                    recovery_attempts, broadcasts, pull_race,
                    network_listeners, observer_js, socketio, throttler >>

\* a publish that is repeated until it is delivered
Publish_retry(sio, emits) == emits

\* the emits of one try block, lines 714-725 and 1386-1407: what reaches the
\* subscribers. An emit that raises is caught, printed and not repeated
Publish(sio, emits) == IF sio = "ok" THEN emits ELSE << >>

\* the payload of the initial broadcast, lines 716-722
InitialEmit(is_mon, cad) ==
    [ event           |-> "auction_update",
      is_monitoring   |-> is_mon,
      current_auction |-> cad,
      last_update     |-> "initial",
      content_change  |-> FALSE,
      initial_load    |-> TRUE ]

\* _monitor_auction, lines 708-725: the initial snapshot and its broadcast;
\* an exception out of the extraction would end start_monitoring
initial_snapshot(t) ==
    LET m == self_[t]
        r == auction_data[t]
    IN
    /\ pc[t] = "initial_assign"
    /\ IF r.exc = "none"
       THEN /\ current_auction_data' = [current_auction_data EXCEPT ![m] = r.data]
            /\ last_update' = [last_update EXCEPT ![m] = "initial"]
            /\ emitted' = Publish(socketio, << InitialEmit(is_monitoring[m], r.data) >>)
            /\ broadcasts' = [broadcasts EXCEPT ![m].initial_loads =
                                 IF @ < 2 /\ socketio = "ok" THEN @ + 1 ELSE @]
            /\ pc' = [pc EXCEPT ![t] = "loop"]
            /\ UNCHANGED << is_monitoring, browser >>
       ELSE /\ Failed(m)
            /\ emitted' = << >>
            /\ pc' = [pc EXCEPT ![t] = "done"]
            /\ UNCHANGED << current_auction_data, last_update, broadcasts >>
    /\ auction_data' = [auction_data EXCEPT ![t] = NoResult]
    /\ response' = "none"
    /\ consecutive_stops' = 0
    /\ received' = NoMessage
    /\ UNCHANGED << app_vars, auction_frame, since_health_check,
                    console_listeners, context, observer_context, self_,
                    site, stop_called, recovery_attempts, pull_race,
                    network_listeners, observer_js, socketio, throttler >>

\* while self.is_monitoring, line 728; when it is false _monitor_auction
\* returns and the finally clause of start_monitoring closes the browser
monitor_loop_test(t) ==
    LET m == self_[t] IN
    /\ pc[t] = "loop"
    /\ IF is_monitoring[m]
       THEN /\ pc' = [pc EXCEPT ![t] = "sleep"]
            /\ UNCHANGED browser
       ELSE /\ pc' = [pc EXCEPT ![t] = "finally"]
            /\ UNCHANGED browser
    /\ emitted' = << >>
    /\ response' = "none"
    /\ consecutive_stops' = 0
    /\ received' = NoMessage
    /\ UNCHANGED << app_vars, is_monitoring, current_auction_data, last_update,
                    auction_frame, since_health_check, console_listeners,
                    context, observer_context, self_, auction_data, site,
                    stop_called,
                    recovery_attempts, broadcasts, pull_race,
                    network_listeners, observer_js, socketio, throttler >>

\* the finally clause of start_monitoring, lines 78-80, after the loop ended
\* or the except clause ran: `if self.browser: await self.browser.close()`
start_monitoring_finally(t) ==
    LET m == self_[t] IN
    /\ pc[t] = "finally"
    /\ browser' = [browser EXCEPT ![m] = IF @ = "none" THEN "none" ELSE "closed"]
    /\ pc' = [pc EXCEPT ![t] = "done"]
    /\ emitted' = << >>
    /\ response' = "none"
    /\ consecutive_stops' = 0
    /\ received' = NoMessage
    /\ UNCHANGED << app_vars, is_monitoring, current_auction_data, last_update,
                    auction_frame, since_health_check, console_listeners,
                    context, observer_context, self_, auction_data, site,
                    stop_called,
                    recovery_attempts, broadcasts, pull_race,
                    network_listeners, observer_js, socketio, throttler >>

\* a health check that runs on the first pass only
HealthCheckDue_first_only(since) == since = "unset"

\* the health check is due: no _last_health_check yet, or more than 30 s
\* since it, line 735
HealthCheckDue(since) == since \in {"unset", "over"}

\* lines 731-739: asyncio.sleep(1) returns, at least 1 s after the pass began
\* and any time after the last health check began (over: more than 30 s
\* after). When the health check is due its time is noted and the extraction
\* starts
monitor_loop_sleep(t, over, destroyed) ==
    LET m   == self_[t]
        now == IF since_health_check[m] = "unset" THEN "unset"
               ELSE IF over THEN "over" ELSE since_health_check[m]
    IN
    /\ pc[t] = "sleep"
    /\ IF HealthCheckDue(now)
       THEN /\ since_health_check' = [since_health_check EXCEPT ![m] = "within"]
            /\ StartExtraction(t, destroyed)
            /\ pc' = [pc EXCEPT ![t] = "health_assign"]
       ELSE /\ ~destroyed
            /\ since_health_check' = [since_health_check EXCEPT ![m] = now]
            /\ pc' = [pc EXCEPT ![t] = "loop"]
            /\ UNCHANGED << auction_data, context >>
    /\ emitted' = << >>
    /\ response' = "none"
    /\ consecutive_stops' = 0
    /\ received' = NoMessage
    /\ UNCHANGED << app_vars, is_monitoring, current_auction_data, last_update,
                    browser, auction_frame, console_listeners,
                    observer_context, self_, site, stop_called,
                    recovery_attempts, broadcasts, pull_race,
                    network_listeners, observer_js, socketio, throttler >>

\* line 740, self.current_auction_data = auction_data: the pulled data
\* replaces the snapshot whatever it held
PullAssign(cad, data) == data

\* lines 739-756: the extraction of the health check is back. Its data
\* replaces the snapshot; an exception that names a destroyed context makes
\* the loop resolve the frame and install the observer again
health_check(t, frame_found, installed) ==
    LET m == self_[t]
        r == auction_data[t]
    IN
    /\ pc[t] = "health_assign"
    /\ IF r.exc = "none"
       THEN /\ current_auction_data' = [current_auction_data EXCEPT ![m] =
                                          PullAssign(@, r.data)]
            /\ last_update' = [last_update EXCEPT ![m] = "health"]
            /\ pull_race' = [pull_race EXCEPT ![m] =
                                IF @ = "push_in_flight" THEN "overwritten" ELSE "none"]
            /\ UNCHANGED << auction_frame, console_listeners, observer_context,
                            recovery_attempts, network_listeners >>
       ELSE IF r.exc = "destroyed" /\ browser[m] = "open"
       THEN /\ auction_frame' = [auction_frame EXCEPT ![m] = frame_found]
            /\ console_listeners' = [console_listeners EXCEPT ![m] =
                                       IF frame_found THEN @ + 1 ELSE @]
            /\ observer_context' = [observer_context EXCEPT ![m] =
                                      IF frame_found /\ installed THEN context[m] ELSE @]
            /\ recovery_attempts' = [recovery_attempts EXCEPT ![m] = @ + 1]
            /\ network_listeners' = [network_listeners EXCEPT ![m] =
                                       _setup_network_monitoring(@)]
            /\ UNCHANGED << current_auction_data, last_update, pull_race >>
       ELSE UNCHANGED << current_auction_data, last_update, auction_frame,
                         console_listeners, observer_context,
                         recovery_attempts, pull_race, network_listeners >>
    /\ pc' = [pc EXCEPT ![t] = "loop"]
    /\ auction_data' = [auction_data EXCEPT ![t] = NoResult]
    /\ emitted' = << >>
    /\ response' = "none"
    /\ consecutive_stops' = 0
    /\ received' = NoMessage
    /\ UNCHANGED << app_vars, is_monitoring, browser, since_health_check,
                    context, self_, site, stop_called, broadcasts,
                    observer_js, socketio, throttler >>

(***************************************************************************)
(* The push channel and the site.                                          *)
(***************************************************************************)
\* places where a thread is suspended in an await of start_monitoring
AwaitPcs == {"initial_assign", "sleep", "health_assign"}

\* a console message of the page reaches the registered decoder while the
\* event loop of a thread of this monitor is waiting
console_message(m, msg) ==
    LET r == Deliver(console_listeners[m], is_monitoring[m],
                     current_auction_data[m], last_update[m], msg)
    IN
    /\ console_listeners[m] > 0
    /\ browser[m] = "open"
    /\ \E t \in Thr : self_[t] = m /\ pc[t] \in AwaitPcs
    /\ current_auction_data' = [current_auction_data EXCEPT ![m] = r.cad]
    /\ last_update' = [last_update EXCEPT ![m] = r.last_update]
    /\ emitted' = Publish(socketio, r.emits)
    /\ broadcasts' = [broadcasts EXCEPT ![m].change_first =
                         @ \/ ( /\ Publish(socketio, r.emits) # << >>
                                /\ broadcasts[m].initial_loads = 0 )]
    /\ pull_race' = [pull_race EXCEPT ![m] =
                        IF /\ r.cad # current_auction_data[m]
                           /\ \E t \in Thr : self_[t] = m /\ pc[t] = "health_assign"
                        THEN "push_in_flight" ELSE @]
    /\ response' = "none"
    /\ consecutive_stops' = 0
    /\ received' = msg
    /\ UNCHANGED << app_vars, is_monitoring, browser, auction_frame,
                    since_health_check, console_listeners, context,
                    observer_context, thread_vars, site, stop_called,
                    recovery_attempts, network_listeners, observer_js, socketio, throttler >>

\* the auction page changes what it shows
site_change(pg) ==
    /\ pg # site
    /\ site' = pg
    /\ emitted' = << >>
    /\ response' = "none"
    /\ consecutive_stops' = 0
    /\ received' = NoMessage
    /\ UNCHANGED << app_vars, monitor_vars, thread_vars, stop_called,
                    recovery_attempts, broadcasts, pull_race,
                    network_listeners, observer_js, socketio, throttler >>

\* places where a thread is inside the loop of _monitor_auction
LoopPcs == {"loop", "sleep", "health_assign"}

\* the browser or its page is closed under a session that is observing
\* (closed by hand, crashed): page.is_closed() is True from now on
driver_closes(m) ==
    /\ browser[m] = "open"
    /\ \E t \in Thr : self_[t] = m /\ pc[t] \in LoopPcs
    /\ browser' = [browser EXCEPT ![m] = "closed"]
    /\ emitted' = << >>
    /\ response' = "none"
    /\ consecutive_stops' = 0
    /\ received' = NoMessage
    /\ UNCHANGED << app_vars, is_monitoring, current_auction_data, last_update,
                    auction_frame, since_health_check, console_listeners,
                    context, observer_context, thread_vars, site, stop_called,
                    recovery_attempts, broadcasts, pull_race,
                    network_listeners, observer_js, socketio, throttler >>

\* the frame changes under the anchor (to show dom, which may be what it
\* showed) and the observer's callback handles the batch
mutation_batch(dom) ==
    LET r == MutationCallback(observer_js, dom) IN
    /\ observer_js' =
          [ lastBid |-> r.lastBid, lastBidder |-> r.lastBidder,
            mutationCount |-> r.mutationCount,
            dom |-> dom,
            logged |-> r.logged,
            last_pushed |-> IF observer_js.logged # << >>
                            THEN observer_js.logged[1].json
                            ELSE observer_js.last_pushed ]
    /\ received' = NoMessage
    /\ emitted' = << >>
    /\ response' = "none"
    /\ consecutive_stops' = 0
    /\ UNCHANGED << app_vars, monitor_vars, thread_vars, site, stop_called,
                    recovery_attempts, broadcasts, pull_race,
                    network_listeners, socketio, throttler >>

\* socketio.emit starts or stops raising (the server shuts down, a client
\* connection breaks)
socketio_changes ==
    /\ socketio' = IF socketio = "ok" THEN "raises" ELSE "ok"
    /\ received' = NoMessage
    /\ emitted' = << >>
    /\ response' = "none"
    /\ consecutive_stops' = 0
    /\ UNCHANGED << app_vars, monitor_vars, thread_vars, site, stop_called,
                    recovery_attempts, broadcasts, pull_race,
                    network_listeners, observer_js, throttler >>

(***************************************************************************)
(* RequestThrottler.throttle, lines 22-34.  Coroutines run until they      *)
(* await: a call is one step up to its sleep or its return, and one step   *)
(* from the end of its sleep to its return.                                *)
(***************************************************************************)
\* line 26: the request times less than 60 s old
Recent(times, now) == SelectSeq(times, LAMBDA x : now - x < Window)

OtherThanThrottler ==
    /\ received' = NoMessage
    /\ emitted' = << >>
    /\ response' = "none"
    /\ consecutive_stops' = 0
    /\ UNCHANGED << app_vars, monitor_vars, thread_vars, site, stop_called,
                    recovery_attempts, broadcasts, pull_race,
                    network_listeners, observer_js, socketio >>

\* lines 24-34 up to the await: a call that need not wait appends its now and
\* returns; one that must wait goes to sleep for wait_time
throttle_call ==
    LET now       == throttler.clock
        times     == Recent(throttler.request_times, now)
        wait_time == IF Len(times) >= requests_per_minute
                     THEN Window - (now - times[1]) ELSE 0
        calls     == Len(throttler.returned) + Len(throttler.sleeping)
    IN
    /\ calls < MaxCalls
    /\ IF wait_time > 0
       THEN throttler' = [throttler EXCEPT
                !.request_times = times,
                !.sleeping = Append(@, [now |-> now, wake |-> now + wait_time])]
       ELSE throttler' = [throttler EXCEPT
                !.request_times = Append(times, now),
                !.returned = Append(@, now)]
    /\ OtherThanThrottler

\* lines 32-34: a sleep is over, its call appends the now it read on entry
\* and returns
throttle_wake(i) ==
    /\ i \in DOMAIN throttler.sleeping
    /\ throttler.clock >= throttler.sleeping[i].wake
    /\ throttler' = [throttler EXCEPT
          !.request_times = Append(@, throttler.sleeping[i].now),
          !.sleeping = SubSeq(@, 1, i - 1) \o SubSeq(@, i + 1, Len(@)),
          !.returned = Append(@, throttler.clock)]
    /\ OtherThanThrottler

\* time passes
tick ==
    /\ throttler.clock < MaxTime
    /\ throttler' = [throttler EXCEPT !.clock = @ + 1]
    /\ OtherThanThrottler

\* the steps of the monitoring threads
ThreadStep ==
    \/ \E t \in Thr : start_monitoring_thread(t)
    \/ \E t \in Thr : start_monitoring(t)
    \/ \E t \in Thr, o \in {"ok", "launch_fails", "login_fails"} : _login_to_copart(t, o)
    \/ \E t \in Thr, g, f \in BOOLEAN : _navigate_to_auction(t, g, f)
    \/ \E t \in Thr, i \in BOOLEAN : _setup_mutation_observer(t, i)
    \/ \E t \in Thr, d \in BOOLEAN : initial_extraction(t, d)
    \/ \E t \in Thr : initial_snapshot(t)
    \/ \E t \in Thr : monitor_loop_test(t)
    \/ \E t \in Thr : start_monitoring_finally(t)
    \/ \E t \in Thr, o, d \in BOOLEAN : monitor_loop_sleep(t, o, d)
    \/ \E t \in Thr, f, i \in BOOLEAN : health_check(t, f, i)

\* the steps of the threads over a page whose execution context stays alive
\* (no pull meets a reload)
ThreadStepAlive ==
    \/ \E t \in Thr : start_monitoring_thread(t)
    \/ \E t \in Thr : start_monitoring(t)
    \/ \E t \in Thr, o \in {"ok", "launch_fails", "login_fails"} : _login_to_copart(t, o)
    \/ \E t \in Thr, g, f \in BOOLEAN : _navigate_to_auction(t, g, f)
    \/ \E t \in Thr, i \in BOOLEAN : _setup_mutation_observer(t, i)
    \/ \E t \in Thr : initial_extraction(t, FALSE)
    \/ \E t \in Thr : initial_snapshot(t)
    \/ \E t \in Thr : monitor_loop_test(t)
    \/ \E t \in Thr : start_monitoring_finally(t)
    \/ \E t \in Thr, o \in BOOLEAN : monitor_loop_sleep(t, o, FALSE)
    \/ \E t \in Thr, f, i \in BOOLEAN : health_check(t, f, i)

(***************************************************************************)
(* Spec: the application under any number of start and stop requests, up   *)
(* to MaxStarts accepted starts, with the observer's push line.            *)
(***************************************************************************)
Next ==
    \/ \E has_url \in BOOLEAN : app_start_monitoring(has_url, MaxStarts)
    \/ \E cleanup_ok \in BOOLEAN : app_stop_monitoring(cleanup_ok)
    \/ ThreadStepAlive
    \/ \E m \in Mon : console_message(m, BidChangeLine)

Spec == Init /\ [][Next]_vars

(***************************************************************************)
(* SpecSession: one session from its start request on, under every console *)
(* message, every change of the page, status requests and a browser that   *)
(* may close.                                                              *)
(***************************************************************************)
NextSession ==
    \/ \E has_url \in BOOLEAN : app_start_monitoring(has_url, 1)
    \/ \E cleanup_ok \in BOOLEAN : app_stop_monitoring(cleanup_ok)
    \/ ThreadStep
    \/ \E m \in Mon, msg \in SpecMessages : console_message(m, msg)
    \/ \E pg \in SpecPages : site_change(pg)
    \/ handle_request_status
    \/ \E m \in Mon : driver_closes(m)

InitSession == InitWith(SpecPages)

SpecSession == InitSession /\ [][NextSession]_vars

(***************************************************************************)
(* SpecThrottle: a RequestThrottler under calls of throttle() at any time, *)
(* from coroutines that may overlap.                                       *)
(***************************************************************************)
NextThrottle ==
    \/ throttle_call
    \/ \E i \in 1..MaxCalls : throttle_wake(i)
    \/ tick

SpecThrottle == Init /\ [][NextThrottle]_vars

(***************************************************************************)
(* SpecObserver: one installed observer under every sequence of mutation   *)
(* batches.                                                                *)
(***************************************************************************)
NextObserver == \E dom \in Doms : mutation_batch(dom)

SpecObserver == Init /\ [][NextObserver]_vars

(***************************************************************************)
(* SpecExtract: _extract_auction_data as a function of the page.  A page   *)
(* shows elements for the candidates of one field, in every combination of *)
(* probe results; the session is about to take its initial snapshot.       *)
(***************************************************************************)
\* the candidates of every field, in the order the code tries them
FieldCandidates ==
    [ lot_title      |-> title_selectors,
      lot_number     |-> lot_number_selectors,
      current_bid    |-> << bid_text_elem >> \o bid_selectors,
      current_bidder |-> << bidder_texts >> \o bidder_selectors,
      time_remaining |-> time_selectors,
      active_bidders |-> bidders_selectors ]

\* probe results that differ for the field: digits matter for the two fields
\* a number is taken from
ProbeStates(f) ==
    IF f \in {"lot_number", "active_bidders"} THEN CandState
    ELSE CandState \ {"num"}

PageOf(shape) ==
    [ el |-> With(Absent, shape), url_id |-> TRUE, live |-> FALSE,
      ended |-> FALSE, destroyed |-> FALSE ]

\* the pages that show elements for the candidates of field f
ExtractPages(f) ==
    { PageOf(shape) : shape \in [Range(FieldCandidates[f]) -> ProbeStates(f)] }

InitExtract ==
    /\ monitor = 1
    /\ monitor_thread = 1
    /\ created = 1
    /\ response = "none"
    /\ is_monitoring = [m \in Mon |-> m = 1]
    /\ current_auction_data = [m \in Mon |-> NoData]
    /\ last_update = [m \in Mon |-> "None"]
    /\ \E b \in {"open", "closed"}, f \in BOOLEAN :
         /\ browser = [m \in Mon |-> IF m = 1 THEN b ELSE "none"]
         /\ auction_frame = [m \in Mon |-> m = 1 /\ f]
         /\ IF b = "open" /\ f
            THEN \E field \in DOMAIN FieldCandidates : site \in ExtractPages(field)
            ELSE site \in SpecPages
    /\ since_health_check = [m \in Mon |-> "unset"]
    /\ console_listeners = [m \in Mon |-> 0]
    /\ context = [m \in Mon |-> 0]
    /\ observer_context = [m \in Mon |-> -1]
    /\ pc = [t \in Thr |-> IF t = 1 THEN "initial_extract" ELSE "unborn"]
    /\ self_ = [t \in Thr |-> IF t = 1 THEN 1 ELSE 0]
    /\ auction_data = [t \in Thr |-> NoResult]
    /\ emitted = << >>
    /\ stop_called = [m \in Mon |-> FALSE]
    /\ consecutive_stops = 0
    /\ recovery_attempts = [m \in Mon |-> 0]
    /\ network_listeners = [m \in Mon |-> 0]
    /\ observer_js = ObserverInstalled
    /\ socketio = "ok"
    /\ throttler = [ clock |-> 0, request_times |-> << >>, sleeping |-> << >>,
                     returned |-> << >> ]
    /\ broadcasts = [m \in Mon |-> [initial_loads |-> 0, change_first |-> FALSE]]
    /\ pull_race = [m \in Mon |-> "none"]
    /\ received = NoMessage

NextExtract == \E t \in Thr, d \in BOOLEAN : initial_extraction(t, d)

SpecExtract == InitExtract /\ [][NextExtract]_vars


(***************************************************************************)
(* FairSession: SpecSession with the event loop running the monitoring     *)
(* coroutine whenever it can run.                                          *)
(***************************************************************************)
FairSession == SpecSession /\ WF_vars(ThreadStep)

\* the session, its stop request and the push traffic, on a page that stays
NextPush ==
    \/ \E has_url \in BOOLEAN : app_start_monitoring(has_url, 1)
    \/ \E cleanup_ok \in BOOLEAN : app_stop_monitoring(cleanup_ok)
    \/ ThreadStep
    \/ \E m \in Mon, msg \in SpecMessages : console_message(m, msg)

\* FairClock: one session under push traffic, with a thread that keeps
\* running and a clock that advances. Every pass of the loop sleeps 1 s (line
\* 731), so a thread that keeps passing finds, again and again, more than
\* 30 s gone since the last health check.
FairClock ==
    /\ InitSession /\ [][NextPush]_vars
    /\ WF_vars(ThreadStep)
    /\ SF_vars(\E t \in Thr, d \in BOOLEAN : monitor_loop_sleep(t, TRUE, d))

(***************************************************************************)
(* SpecEmit: one session under push traffic with a socketio whose emit may *)
(* raise.                                                                  *)
(***************************************************************************)
NextEmit ==
    \/ NextPush
    \/ socketio_changes

SpecEmit == InitSession /\ [][NextEmit]_vars

(***************************************************************************)
(* Properties.                                                             *)
(***************************************************************************)
\* the snapshot field that a key of a push message names
FieldOf(tag, key) ==
    IF tag # "BID_CHANGE" THEN key
    ELSE CASE key = "bid"           -> "current_bid"
           [] key = "bidder"        -> "current_bidder"
           [] key = "bidSuggestion" -> "bid_suggestion"
           [] key = "lotTitle"      -> "lot_title"
           [] key = "lotNumber"     -> "lot_number"
           [] OTHER                 -> key

Carried(msg) == {FieldOf(TagOf(msg.text), k) : k \in DOMAIN msg.json}

\* C1: merging a push message is field-wise and non-destructive: every field
\* of the snapshot that the message does not carry has the same value after
\* _handle_console_message as before it.
C1_MergeNonDestructive ==
    [][\A m \in Mon, msg \in SpecMessages :
         console_message(m, msg) =>
           \A k \in DOMAIN current_auction_data[m] \ Carried(msg) :
              current_auction_data'[m][k] = current_auction_data[m][k]]_vars

\* what a stop request must leave alone when it follows another stop request
StopFrame == << monitor, monitor_thread, created, is_monitoring,
                current_auction_data, last_update, browser, auction_frame,
                since_health_check, console_listeners, context,
                observer_context, pc, self_, auction_data, site, stop_called >>

\* C2: stop called twice in a row ends as stop called once does: no call
\* raises, after each no monitor is registered and the monitor that was has
\* is_monitoring false, and the second call changes nothing, the snapshot
\* included, with or without a page, a frame and a cleanup script that runs.
C2_StopTwice ==
    [][consecutive_stops' > 0 =>
         /\ response' = "stopped"
         /\ monitor' = 0
         /\ monitor_thread' = 0
         /\ monitor # 0 => ~is_monitoring'[monitor]
         /\ consecutive_stops' = 2 => UNCHANGED StopFrame]_vars

\* C2 happens: two stop requests in a row, the first on a session that has a
\* page and a frame
C2_Witness ==
    /\ consecutive_stops = 2
    /\ \E m \in Mon : stop_called[m] /\ browser[m] = "open" /\ auction_frame[m]

\* threads that are inside start_monitoring
Running == {t \in Thr : pc[t] \notin {"unborn", "spawned", "entered", "done"}}

\* C3: while no stop request has been served, at most one monitoring thread
\* is running start_monitoring, under every interleaving of start requests
\* and threads.
C3_OneSession ==
    (\A m \in Mon : ~stop_called[m]) => Cardinality(Running) <= 1

\* C4: once stop has been called on a session, its is_monitoring is false
\* and stays false, whatever point the session had reached.
C4_StoppedStaysStopped ==
    \A m \in Mon : stop_called[m] => ~is_monitoring[m]

\* C5: when the extraction of a health check met a destroyed context, the
\* loop goes on to recovery: it runs the frame resolver and the observer
\* injector again.
C5_DestroyedStartsRecovery ==
    [][\A t \in Thr :
         ( /\ pc[t] = "health_assign"
           /\ auction_data[t].ctx_destroyed
           /\ pc'[t] # "health_assign" )
         => recovery_attempts'[self_[t]] > recovery_attempts[self_[t]]]_vars

\* C6: every health check broadcasts an auction_update that carries the
\* snapshot it pulled, with the changed flag true exactly when that snapshot
\* differs from the one held before.
C6_HealthCheckEmits ==
    [][\A t \in Thr :
         (pc[t] = "health_assign" /\ pc'[t] # "health_assign") =>
           \E i \in DOMAIN emitted' :
              /\ emitted'[i].event = "auction_update"
              /\ emitted'[i].current_auction = current_auction_data'[self_[t]]
              /\ emitted'[i].content_change =
                   (current_auction_data'[self_[t]] # current_auction_data[self_[t]])]_vars

\* C7: once the initial snapshot exists, no tracked field of the snapshot is
\* null, after any pulls and any push messages.
C7_NeverNull ==
    \A m \in Mon :
       HasData(current_auction_data[m]) =>
          /\ TrackedKeys \subseteq DOMAIN current_auction_data[m]
          /\ \A k \in TrackedKeys \ {"active_bidders"} :
                current_auction_data[m][k] # NULL
          /\ current_auction_data[m].active_bidders \in Nat

\* field f has no candidate to read in the extraction thread t has made
Unresolved(f, t) ==
    \/ browser[self_[t]] # "open"
    \/ ~auction_frame[self_[t]]
    \/ auction_data[t].ctx_destroyed
    \/ \A s \in Range(FieldCandidates[f]) : site.el[s] \in {"absent", "raises"}

\* C8: _extract_auction_data never raises and returns every tracked key,
\* none null, with the sentinel in every field that has no candidate to read:
\* no candidate visible, probes raising, no frame, page closed.
C8_ExtractComplete ==
    \A t \in Thr :
       pc[t] = "initial_assign" =>
          /\ auction_data[t].exc = "none"
          /\ DOMAIN auction_data[t].data = TrackedKeys
          /\ \A f \in DOMAIN FieldCandidates :
                Unresolved(f, t) => auction_data[t].data[f] = DefaultData[f]
          /\ \A k \in TrackedKeys \ {"active_bidders"} :
                auction_data[t].data[k] # NULL
          /\ auction_data[t].data.active_bidders \in Nat

\* C8 happens: an extraction from an open page with a frame where no
\* candidate is visible and some probe raises has returned the sentinels
C8_Witness ==
    /\ pc[1] = "initial_assign"
    /\ browser[1] = "open" /\ auction_frame[1]
    /\ ~auction_data[1].ctx_destroyed
    /\ \A s \in Selectors : site.el[s] \in {"absent", "raises"}
    /\ \E s \in Selectors : site.el[s] = "raises"
    /\ \A f \in DOMAIN FieldCandidates : auction_data[1].data[f] = DefaultData[f]

\* candidate k of field f shows a value and the candidates before it show
\* nothing
FirstVisible(f, k) ==
    /\ site.el[FieldCandidates[f][k]] =
          (IF f \in {"lot_number", "active_bidders"} THEN "num" ELSE "text")
    /\ \A j \in 1..(k - 1) : site.el[FieldCandidates[f][j]] = "absent"

\* the values that reading candidate k of field f can give
ValuesOf(f, k) ==
    IF f = "active_bidders" THEN {k}
    ELSE IF f = "lot_number" THEN {DigitStr[k]}
    ELSE { RawText(FieldCandidates[f][k], k, "text"),
           Stripped(FieldCandidates[f][k], k, "text") }

\* C9: fallback order: for every field and every k, when candidate k is
\* visible and candidates 1..k-1 are not, the extraction stores the value
\* read from candidate k.
C9_FallbackOrder ==
    \A t \in Thr :
       ( /\ pc[t] = "initial_assign"
         /\ browser[self_[t]] = "open" /\ auction_frame[self_[t]]
         /\ ~auction_data[t].ctx_destroyed )
       => \A f \in DOMAIN FieldCandidates :
             \A k \in 1..Len(FieldCandidates[f]) :
                FirstVisible(f, k) => auction_data[t].data[f] \in ValuesOf(f, k)

\* C10: after the context of a session with an observer was destroyed, the
\* session comes back to observing: the observer is installed again in the
\* context the page has now, unless the session ends or the browser closes
\* first.
C10_RecoveryConverges ==
    \A m \in Mon :
       ( /\ observer_context[m] >= 0 /\ observer_context[m] < context[m]
         /\ browser[m] = "open" /\ ~stop_called[m] )
          ~> \/ observer_context[m] = context[m]
             \/ ~is_monitoring[m] \/ stop_called[m] \/ browser[m] # "open"

\* places where a thread waits for an extraction it has started
ExtractionPcs == {"initial_assign", "health_assign"}

\* C11: when stop returns the health-check timer is cancelled: no extraction
\* of the stopped session is in flight at that moment, and no health-check
\* extraction starts for a session that stop was called on.
C11_StopCancelsTimer ==
    [][ /\ (consecutive_stops' > 0 /\ monitor # 0) =>
              \A t \in Thr : self_[t] = monitor => pc'[t] \notin ExtractionPcs
        /\ \A t \in Thr :
              (self_[t] # 0 /\ pc[t] = "sleep" /\ pc'[t] = "health_assign")
                 => ~stop_called[self_[t]] ]_vars

\* C12: once stop has set is_monitoring to false, what was in flight is
\* discarded: no completing extraction and no push message changes
\* current_auction_data or last_update, and neither is broadcast.
C12_ResultsDiscarded ==
    [][\A m \in Mon :
         (stop_called[m] /\ ~is_monitoring[m]) =>
            /\ current_auction_data'[m] = current_auction_data[m]
            /\ last_update'[m] = last_update[m]
            /\ (received' # NoMessage \/ pc' # pc) => emitted' = << >>]_vars

\* a console message the decoder has to ignore: its text does not start with
\* one of the two tags, or what follows the tag is no JSON
Ignored(msg) ==
    \/ ~msg.json_ok
    \/ Len(msg.text) = 0
    \/ msg.text[1] \notin {"BID_CHANGE:", "AUCTION_UPDATE:"}

\* C13: a console message that does not start with the exact tag, or whose
\* payload is no JSON, is ignored: the snapshot and last_update are
\* unchanged, nothing is broadcast and no exception leaves the decoder.
C13_UntaggedIgnored ==
    [][\A m \in Mon, msg \in SpecMessages :
         (Ignored(msg) /\ console_message(m, msg)) =>
            /\ UNCHANGED << current_auction_data, last_update >>
            /\ emitted' = << >>
            /\ ~_handle_console_message(is_monitoring[m], current_auction_data[m],
                                        last_update[m], msg).raised]_vars

\* C13 happens: with a snapshot present the decoder has received a line that
\* holds a tag and JSON but does not start with the tag
C13_Witness ==
    /\ received # NoMessage
    /\ received.json_ok
    /\ received.text[1] \notin {"BID_CHANGE:", "AUCTION_UPDATE:"}
    /\ \E i \in 2..Len(received.text) : received.text[i] = "BID_CHANGE:"
    /\ \E m \in Mon : HasData(current_auction_data[m]) /\ console_listeners[m] > 0

\* the four members of the message the subscribers are promised
UniformShape == {"is_monitoring", "current_auction", "content_change", "initial_load"}

\* C14: every auction_update sent to subscribers, from the initial load, a
\* push or a status request, has the four members: the monitoring flag, the
\* snapshot, content_change and initial_load.
C14_UniformShape ==
    \A i \in DOMAIN emitted :
       emitted[i].event = "auction_update" => UniformShape \subseteq DOMAIN emitted[i]

\* C15: when the browser or page is closed under an observing session, the
\* session ends by itself: is_monitoring becomes false without a stop
\* request.
C15_ClosedDriverEndsSession ==
    \A m \in Mon :
       (browser[m] = "closed" /\ is_monitoring[m] /\ ~stop_called[m])
          ~> ~is_monitoring[m]

\* C16: a missing field is a sentinel, but when the driver reports that the
\* execution context is gone the extraction does not hand a snapshot back: the
\* error leaves _extract_auction_data, and it leaves only then.
C16_DestroyedPropagates ==
    \A t \in Thr :
       (pc[t] \in ExtractionPcs /\ browser[self_[t]] = "open") =>
          (auction_data[t].ctx_destroyed <=> auction_data[t].exc # "none")

\* C17: a session broadcasts its initial load exactly once, with
\* content_change false and once the first extraction has given the snapshot,
\* and no content_change broadcast of the session comes before it, although
\* the push decoder is registered before the first extraction starts.
C17_OneInitialLoad ==
    /\ \A m \in Mon :
          /\ broadcasts[m].initial_loads <= 1
          /\ ~broadcasts[m].change_first
          /\ (broadcasts[m].initial_loads = 1) <=> HasData(current_auction_data[m])
    /\ \A i \in DOMAIN emitted :
          "initial_load" \in DOMAIN emitted[i] =>
             emitted[i].initial_load /\ ~emitted[i].content_change

\* C18: the health check runs on its own timer. A pass of the loop starts the
\* extraction when no health check was made yet or more than 30 s have gone
\* since the last one began; a push, whatever it carries, leaves the timer and
\* the position of the loop alone; and a session that stays active starts a
\* health check again and again.
C18_HealthCheckRecurs ==
    /\ [][ /\ \A t \in Thr :
                (pc[t] = "sleep" /\ since_health_check[self_[t]] = "unset"
                    /\ pc'[t] # "sleep") => pc'[t] = "health_assign"
           /\ \A t \in Thr, d \in BOOLEAN :
                monitor_loop_sleep(t, TRUE, d) =>
                   /\ pc'[t] = "health_assign"
                   /\ since_health_check'[self_[t]] = "within"
           /\ \A m \in Mon, msg \in SpecMessages :
                console_message(m, msg) =>
                   UNCHANGED << since_health_check, pc, auction_data >> ]_vars
    /\ \A t \in Thr :
          (pc[t] \in {"loop", "sleep"} /\ is_monitoring[self_[t]])
             ~> \/ pc[t] = "health_assign"
                \/ self_[t] # 0 /\ ~is_monitoring[self_[t]]

\* C18 happens: in an active session whose snapshot was last written by a
\* push, and whose first health check is past, a health check is in flight
C18_Witness ==
    \E t \in Thr :
       /\ pc[t] = "health_assign"
       /\ is_monitoring[self_[t]]
       /\ last_update[self_[t]] = "push"
       /\ received = NoMessage

\* the tracked fields every BID_CHANGE merge writes, lines 1367-1371
PushedFields == {"current_bid", "current_bidder"}

\* C19: when a health check has overwritten what a push wrote while its
\* extraction was in flight, the next health check that completes on a page
\* that did not change under it leaves a well-formed snapshot in which the
\* fields a push writes hold the values the page shows.
C19_PullRaceRepaired ==
    [][\A t \in Thr :
         ( /\ pc[t] = "health_assign" /\ pc'[t] = "loop"
           /\ pull_race[self_[t]] = "overwritten"
           /\ browser[self_[t]] = "open" /\ auction_frame[self_[t]]
           /\ ~auction_data[t].ctx_destroyed
           /\ auction_data[t].page = site )
         => /\ DOMAIN current_auction_data'[self_[t]] = TrackedKeys
            /\ \A f \in PushedFields :
                  \A k \in 1..Len(FieldCandidates[f]) :
                     FirstVisible(f, k) =>
                        current_auction_data'[self_[t]][f] \in ValuesOf(f, k)]_vars

\* C20: a session that found no auction frame at its start resolves the
\* frame again on its later cycles: a cycle of the loop that made its health
\* check without a frame has asked the resolver for it once more.
C20_FrameRetried ==
    [][\A t \in Thr :
         ( /\ pc[t] = "health_assign" /\ pc'[t] = "loop"
           /\ browser[self_[t]] = "open" /\ is_monitoring[self_[t]]
           /\ ~auction_frame[self_[t]] )
         => \/ auction_frame'[self_[t]]
            \/ recovery_attempts'[self_[t]] > recovery_attempts[self_[t]]]_vars

\* where a thread is once _navigate_to_auction has returned
AfterNavigatePcs == {"setup_observer", "initial_extract", "initial_assign",
                     "loop", "sleep", "health_assign"}

\* the fields read from the auction frame only
FrameFields == DOMAIN FieldCandidates

\* C21: a session whose frame resolver found no frame goes on. No step of its
\* thread ends it or clears is_monitoring (only a stop request does, and the
\* thread leaves only through the loop test of a session that is not active);
\* its initial snapshot is taken and broadcast; and its initial snapshot and
\* health checks hold the sentinel in every field read from the frame.
C21_NoFrameNotFatal ==
    [][\A t \in Thr :
         ( /\ pc[t] \in AfterNavigatePcs
           /\ ~auction_frame[self_[t]] /\ browser[self_[t]] = "open" )
         => /\ pc'[t] \in {"finally", "done"}
                  => (pc[t] = "loop" /\ ~is_monitoring[self_[t]])
            /\ (is_monitoring[self_[t]] /\ ~is_monitoring'[self_[t]])
                  => consecutive_stops' > 0
            /\ (pc[t] = "initial_assign" /\ pc'[t] # "initial_assign")
                  => /\ pc'[t] = "loop"
                     /\ Len(emitted') = 1 /\ emitted'[1].initial_load
                     /\ emitted'[1].current_auction = current_auction_data'[self_[t]]
            /\ (pc[t] \in ExtractionPcs /\ pc'[t] = "loop")
                  => \A f \in FrameFields :
                        current_auction_data'[self_[t]][f] = DefaultData[f]]_vars

\* C21 happens: an active session without a frame, on a page that shows the
\* auction, has made a health check and is back in its loop
C21_Witness ==
    \E t \in Thr :
       /\ pc[t] = "loop" /\ is_monitoring[self_[t]]
       /\ ~auction_frame[self_[t]] /\ browser[self_[t]] = "open"
       /\ last_update[self_[t]] = "health"
       /\ site = PageLive
       /\ current_auction_data[self_[t]].lot_title = "N/A"

\* C22: the frame resolver can be called again: a call of _navigate_to_auction
\* that returns on a browser context on which a call has returned before adds
\* no request, response or console listener and leaves the snapshot as it was.
C22_ResolverRecallable ==
    [][\A t \in Thr :
         ( /\ pc[t] = "navigate" /\ pc'[t] = "setup_observer"
           /\ network_listeners[self_[t]] >= 1 )
         => /\ network_listeners'[self_[t]] = network_listeners[self_[t]]
            /\ console_listeners'[self_[t]] = console_listeners[self_[t]]
            /\ current_auction_data'[self_[t]] = current_auction_data[self_[t]]]_vars

\* C23: a failed install of the observer does not end the session.
\* _setup_mutation_observer always returns, to the initial extraction, and
\* leaves is_monitoring and the browser alone; when the script was not
\* installed there is no observer to push, and without a frame not even the
\* decoder is registered; and in a session that never had an observer every
\* health check still replaces the snapshot with what it pulled.
C23_InstallFailureNotFatal ==
    [][\A t \in Thr :
         /\ (pc[t] = "setup_observer" /\ pc'[t] # "setup_observer")
               => /\ pc'[t] = "initial_extract"
                  /\ UNCHANGED << is_monitoring, browser >>
                  /\ ~auction_frame[self_[t]] =>
                        UNCHANGED << console_listeners, observer_context >>
         /\ _setup_mutation_observer(t, FALSE) => UNCHANGED observer_context
         /\ ( /\ pc[t] = "health_assign" /\ pc'[t] = "loop"
              /\ observer_context[self_[t]] = -1 )
               => /\ current_auction_data'[self_[t]] = auction_data[t].data
                  /\ last_update'[self_[t]] = "health"]_vars

\* C23 happens: a session with a frame whose observer was never installed is
\* active in its loop, its snapshot written by a health check
C23_Witness ==
    \E t \in Thr :
       /\ pc[t] = "loop" /\ is_monitoring[self_[t]]
       /\ auction_frame[self_[t]] /\ browser[self_[t]] = "open"
       /\ observer_context[self_[t]] = -1
       /\ last_update[self_[t]] = "health"

\* the tracked values a push line carries
TrackedOf(line) == << line.json.bid, line.json.bidder >>

C25_AtMostOnce ==
    [][ /\ \A t \in Thr :
             (pc[t] = "initial_assign" /\ pc'[t] # "initial_assign"
                 /\ socketio = "raises")
                => /\ emitted' = << >>
                   /\ pc'[t] = "loop"
                   /\ current_auction_data'[self_[t]] = auction_data[t].data
                   /\ UNCHANGED is_monitoring
        /\ \A m \in Mon :
             (received' # NoMessage /\ console_listeners[m] = 1)
                => LET r == _handle_console_message(is_monitoring[m],
                               current_auction_data[m], last_update[m], received')
                   IN  /\ current_auction_data'[m] = r.cad
                       /\ last_update'[m] = r.last_update
                       /\ emitted' = IF socketio = "ok" THEN r.emits ELSE << >>
                       /\ \A i, j \in DOMAIN emitted' :
                             i # j => emitted'[i].event # emitted'[j].event
                       /\ UNCHANGED << pc, is_monitoring >> ]_vars

\* C25 happens: a push was merged in an active session while emit raised, and
\* nothing was broadcast
C25_Witness ==
    /\ socketio = "raises"
    /\ received = BidChangeLine
    /\ emitted = << >>
    /\ \E m \in Mon :
          /\ is_monitoring[m]
          /\ last_update[m] = "push"
          /\ current_auction_data[m].current_bid = "$1,350"

\* C26: the rate limit holds: in every window of 60 s at most
\* requests_per_minute calls of throttle() return.
C26_RateLimit ==
    \A w \in 0..MaxTime :
       Cardinality({ i \in DOMAIN throttler.returned :
                       /\ throttler.returned[i] >= w
                       /\ throttler.returned[i] < w + Window })
          <= requests_per_minute

\* C27: a console message decoded while the session has no snapshot yet is
\* dropped: current_auction_data stays None, last_update stays, nothing is
\* broadcast, nothing is raised and the thread and is_monitoring are as before.
C27_DroppedBeforeSnapshot ==
    [][\A m \in Mon, msg \in SpecMessages :
         (~HasData(current_auction_data[m]) /\ console_message(m, msg))
            => /\ current_auction_data'[m] = NoData
               /\ last_update'[m] = last_update[m]
               /\ emitted' = << >>
               /\ ~_handle_console_message(is_monitoring[m], current_auction_data[m],
                                           last_update[m], msg).raised
               /\ UNCHANGED << pc, is_monitoring >>]_vars

\* C27 happens: the observer's push line was decoded while the first
\* extraction was in flight and no snapshot existed
C27_Witness ==
    /\ received = BidChangeLine
    /\ \E t \in Thr :
          /\ pc[t] = "initial_assign"
          /\ console_listeners[self_[t]] > 0
          /\ current_auction_data[self_[t]] = NoData
          /\ last_update[self_[t]] = "None"

\* C28: the snapshot has the same keys in every state: once it exists, its
\* keys are those of the dictionary _extract_auction_data returns, whatever
\* pushes were merged and health checks assigned.
C28_KeysStable ==
    \A m \in Mon :
       HasData(current_auction_data[m]) =>
          DOMAIN current_auction_data[m] = TrackedKeys


\* C29: whenever start_monitoring returns, on every exit path, is_monitoring
\* of its monitor is false and a browser that had been launched is closed.
C29_ExitCleansUp ==
    [][\A t \in Thr :
         (pc[t] \in {"login", "finally"} /\ pc'[t] = "done")
            => /\ ~is_monitoring'[self_[t]]
               /\ browser'[self_[t]] # "open"]_vars

\* a session that ended through the except clause, with its browser closed
C29_Witness ==
    \E t \in Thr :
       /\ pc[t] = "done" /\ self_[t] # 0
       /\ ~stop_called[self_[t]]
       /\ browser[self_[t]] = "closed"


\* C30: at most one push decoder is registered on the console stream of a
\* session's page at any time, and a BID_CHANGE line that a session with a
\* snapshot decodes is merged and broadcast once: what is published is what
\* one run of the decoder emits, each event once.
C30_OneDecoder ==
    /\ [](\A m \in Mon : console_listeners[m] <= 1)
    /\ [][\A m \in Mon :
            ( /\ received' = BidChangeLine
              /\ console_message(m, BidChangeLine)
              /\ is_monitoring[m] /\ HasData(current_auction_data[m])
              /\ socketio = "ok" )
            => /\ emitted' = _handle_console_message(is_monitoring[m],
                                 current_auction_data[m], last_update[m],
                                 BidChangeLine).emits
               /\ \A i, j \in DOMAIN emitted' :
                     i # j => emitted'[i].event # emitted'[j].event]_vars
====
